---- MODULE Spec2Model ----
(***************************************************************************)
(* DynamoDbRepository (src/dynamoDB/boto3_repository.py): a wrapper over   *)
(* one DynamoDB table.  The table is the state; every public method is an  *)
(* action.  Strings are sequences of characters so that the store's        *)
(* contains() is a real substring test; Python values and stored           *)
(* AttributeValues are kept apart so that a write followed by a read goes  *)
(* through the serializer and the deserializer.                            *)
(***************************************************************************)
EXTENDS Integers, Sequences, FiniteSets, TLC

\* ------------------------------------------------------------------ bounds
\* Largest page limit given to find_all, and longest list given to
\* insert_many (below the 25 put requests the batch writer sends at once).
MaxLimit == 2
MaxBatch == 2

\* ------------------------------------------------------------------ values
\* Field names and string values are sequences of characters.
ID == <<"i", "d">>
STATUS == <<"s", "t">>
NUM == <<"n">>
A == <<"a">>
B == <<"b">>
C == <<"c">>
AB == <<"a", "b">>

\* The order in which the store's scan walks the keys (by key hash).
ScanOrder == << <<"u", "2">>, <<"u", "3">>, <<"u", "1">> >>
Ids == {ScanOrder[i] : i \in 1..Len(ScanOrder)}

\* Python values handed to / returned by the boto3 resource layer.
PyStr(s) == [t |-> "str", s |-> s, n |-> 0]
PyInt(n) == [t |-> "int", s |-> <<>>, n |-> n]
PyDecimal(n) == [t |-> "Decimal", s |-> <<>>, n |-> n]

\* Python ==: str with str, and int with Decimal by numeric value.
PyEq(a, b) ==
    \/ a.t = "str" /\ b.t = "str" /\ a.s = b.s
    \/ a.t \in {"int", "Decimal"} /\ b.t \in {"int", "Decimal"} /\ a.n = b.n

\* Python dict ==.
PyItemEq(a, b) ==
    /\ DOMAIN a = DOMAIN b
    /\ \A f \in DOMAIN a : PyEq(a[f], b[f])

\* TypeSerializer: str -> {"S": ..}, int / Decimal -> {"N": ..}.
Serialize(v) ==
    IF v.t = "str" THEN [t |-> "S", s |-> v.s, n |-> 0]
    ELSE [t |-> "N", s |-> <<>>, n |-> v.n]

\* TypeDeserializer: {"S": ..} -> str, {"N": ..} -> Decimal.
Deserialize(a) ==
    IF a.t = "S" THEN PyStr(a.s) ELSE PyDecimal(a.n)

SerializeItem(item) == [f \in DOMAIN item |-> Serialize(item[f])]
DeserializeItem(st) == [f \in DOMAIN st |-> Deserialize(st[f])]

\* A Python item: always an "id", optionally "status" and "n".
MkItem(id, fields, s, n) ==
    [f \in {ID} \cup fields |->
        IF f = ID THEN PyStr(id) ELSE IF f = STATUS THEN PyStr(s) ELSE PyInt(n)]

\* Items given to insert, and to insert_many.
ItemPool == {MkItem(id, {NUM}, AB, 1) : id \in Ids}
BatchPool == ItemPool

ItemId(item) == item[ID].s

\* Optional values (None / a key dict / a missing dict entry): length <= 1.
None == <<>>
Some(x) == <<x>>

IsSubstring(p, s) ==
    \E i \in 0..(Len(s) - Len(p)) : SubSeq(s, i + 1, i + Len(p)) = p

\* ------------------------------------------- boto3.dynamodb.conditions
NoCondition == [op |-> "None", field |-> <<>>, val |-> PyStr(<<>>), args |-> <<>>]
AttrExists(f) == [op |-> "exists", field |-> f, val |-> PyStr(<<>>), args |-> <<>>]
AttrEq(f, v) == [op |-> "eq", field |-> f, val |-> v, args |-> <<>>]
AttrContains(f, v) == [op |-> "contains", field |-> f, val |-> v, args |-> <<>>]
And(a, b) == [op |-> "And", field |-> <<>>, val |-> PyStr(<<>>), args |-> <<a, b>>]

\* The store's evaluation of a condition on the stored item (None if absent).
RECURSIVE EvalCond(_, _)
EvalCond(c, st) ==
    CASE c.op = "None" -> TRUE
      [] c.op = "exists" -> st # None /\ c.field \in DOMAIN st[1]
      [] c.op = "eq" ->
            st # None /\ c.field \in DOMAIN st[1] /\ st[1][c.field] = Serialize(c.val)
      [] c.op = "contains" ->
            /\ st # None
            /\ c.field \in DOMAIN st[1]
            /\ st[1][c.field].t = "S"
            /\ c.val.t = "str"
            /\ IsSubstring(c.val.s, st[1][c.field].s)
      [] OTHER -> EvalCond(c.args[1], st) /\ EvalCond(c.args[2], st)

\* --------------------------------------------------------------- the store
NoFault == ""
ThrottlingFault == "ProvisionedThroughputExceededException"
ConditionalCheckFailed == "ConditionalCheckFailedException"
ValidationException == "ValidationException"
Faults == {ThrottlingFault}
FaultChoice == Faults \cup {NoFault}

Stored(tbl, key) == IF key \in DOMAIN tbl THEN Some(tbl[key]) ELSE None
Put(tbl, st) == [i \in DOMAIN tbl \cup {st[ID].s} |-> IF i = st[ID].s THEN st ELSE tbl[i]]

\* Mutant: a put that does not replace an item already stored under the key.
put_item_IfAbsent(tbl, Item, fault) ==
    IF fault # NoFault THEN [table |-> tbl, err |-> fault]
    ELSE IF ItemId(Item) \in DOMAIN tbl THEN [table |-> tbl, err |-> NoFault]
    ELSE [table |-> Put(tbl, SerializeItem(Item)), err |-> NoFault]

\* Table.put_item: unconditional write of the serialized item.
put_item(tbl, Item, fault) ==
    IF fault # NoFault THEN [table |-> tbl, err |-> fault]
    ELSE [table |-> Put(tbl, SerializeItem(Item)), err |-> NoFault]

\* Table.get_item: the response holds 'Item' only when the key is present.
get_item(tbl, key, fault) ==
    IF fault # NoFault THEN [err |-> fault, Item |-> None]
    ELSE [err |-> NoFault,
          Item |-> IF key \in DOMAIN tbl THEN Some(DeserializeItem(tbl[key])) ELSE None]

\* Table.delete_item: removing an absent key is not an error.
delete_item(tbl, key, fault) ==
    IF fault # NoFault THEN [table |-> tbl, err |-> fault]
    ELSE [table |-> [i \in DOMAIN tbl \ {key} |-> tbl[i]], err |-> NoFault]

\* Table.update_item with "SET upd.field = upd.value", ReturnValues=UPDATED_NEW.
\* Without a failing condition the store creates a missing item (upsert).
update_item(tbl, key, upd, cond, fault) ==
    IF fault # NoFault THEN [table |-> tbl, err |-> fault, Attributes |-> None]
    ELSE IF ~EvalCond(cond, Stored(tbl, key))
    THEN [table |-> tbl, err |-> ConditionalCheckFailed, Attributes |-> None]
    ELSE LET old == IF key \in DOMAIN tbl THEN tbl[key] ELSE SerializeItem(MkItem(key, {}, A, 0))
             new == [f \in DOMAIN old \cup {upd.field} |->
                        IF f = upd.field THEN Serialize(upd.value) ELSE old[f]]
         IN [table |-> Put(tbl, new), err |-> NoFault,
             Attributes |-> Some([f \in {upd.field} |-> Deserialize(new[f])])]

\* Keys of the table in scan order.
KeysInOrder(tbl) == SelectSeq(ScanOrder, LAMBDA k : k \in DOMAIN tbl)
Position(k) == CHOOSE i \in 1..Len(ScanOrder) : ScanOrder[i] = k
Take(s, n) == SubSeq(s, 1, IF n < Len(s) THEN n ELSE Len(s))

\* Table.scan(Limit, ExclusiveStartKey): at most Limit items after the start
\* key; LastEvaluatedKey is present exactly when the page reached the Limit.
scan(tbl, scan_args, fault) ==
    IF fault # NoFault THEN [err |-> fault, Items |-> <<>>, LastEvaluatedKey |-> None]
    ELSE LET start == scan_args.ExclusiveStartKey
             rest == SelectSeq(KeysInOrder(tbl),
                         LAMBDA k : start = None \/ Position(k) > Position(start[1]))
             page == Take(rest, scan_args.Limit)
         IN [err |-> NoFault,
             Items |-> [i \in 1..Len(page) |-> DeserializeItem(tbl[page[i]])],
             LastEvaluatedKey |->
                 IF Len(page) = scan_args.Limit THEN Some(page[Len(page)]) ELSE None]

\* Table.query: the service rejects a Query that carries no key condition.
query(tbl, key_condition, filter, fault) ==
    IF fault # NoFault THEN [err |-> fault, Items |-> <<>>]
    ELSE IF key_condition = None THEN [err |-> ValidationException, Items |-> <<>>]
    ELSE LET hit == SelectSeq(KeysInOrder(tbl),
                        LAMBDA k : k = key_condition[1] /\ EvalCond(filter, Some(tbl[k])))
         IN [err |-> NoFault, Items |-> [i \in 1..Len(hit) |-> DeserializeItem(tbl[hit[i]])]]

RECURSIVE PutAll(_, _, _)
PutAll(tbl, data, idx) ==
    IF idx = {} THEN tbl
    ELSE LET i == CHOOSE j \in idx : \A k \in idx : j <= k
         IN PutAll(Put(tbl, SerializeItem(data[i])), data, idx \ {i})

HasDuplicateKeys(data) ==
    \E i, j \in 1..Len(data) : i # j /\ ItemId(data[i]) = ItemId(data[j])

\* Table.batch_writer over at most one batch of put requests: nothing is sent
\* for an empty buffer; a batch with a repeated key is rejected; unprocessed
\* items are sent again, so a failure may leave the first `processed` written.
batch_writer(tbl, data, fault, processed) ==
    IF Len(data) = 0 THEN [table |-> tbl, err |-> NoFault]
    ELSE IF HasDuplicateKeys(data) THEN [table |-> tbl, err |-> ValidationException]
    ELSE IF fault # NoFault THEN [table |-> PutAll(tbl, data, 1..processed), err |-> fault]
    ELSE [table |-> PutAll(tbl, data, 1..Len(data)), err |-> NoFault]

\* ------------------------------------------------------- the repository
\* Outcome of a call: a return value or a raised exception.
Return(shape, value) ==
    [kind |-> "return", exc |-> "", code |-> "", shape |-> shape, value |-> value]
Raise(exc, code) ==
    [kind |-> "raise", exc |-> exc, code |-> code, shape |-> "none", value |-> <<>>]

\* What a handler did: the table afterwards, the caller-visible outcome and
\* the error code the store raised inside it ("" if none).
Outcome(tbl, storeErr, result) == [table |-> tbl, storeErr |-> storeErr, result |-> result]

\* except ClientError as err: ... logger.error(...); raise
Reraise(err) == Raise("ClientError", err)

\* Mutant: the last put request never reaches the store.
insert_many_DropsLast(tbl, data, fault, processed) ==
    LET r == batch_writer(tbl, SubSeq(data, 1, Len(data) - 1), fault, processed)
    IN IF r.err # NoFault THEN Outcome(r.table, r.err, Reraise(r.err))
       ELSE Outcome(r.table, NoFault, Return("none", <<>>))

\* insert_many: every item goes to the batch writer, flushed on leaving `with`.
insert_many(tbl, data, fault, processed) ==
    LET r == batch_writer(tbl, data, fault, processed)
    IN IF r.err # NoFault THEN Outcome(r.table, r.err, Reraise(r.err))
       ELSE Outcome(r.table, NoFault, Return("none", <<>>))

insert(tbl, item, fault) ==
    LET r == put_item(tbl, item, fault)
    IN IF r.err # NoFault THEN Outcome(r.table, r.err, Reraise(r.err))
       ELSE Outcome(r.table, NoFault, Return("none", <<>>))

\* `if item:` is false for None and for an empty dict.
Truthy(item) == item # None /\ DOMAIN item[1] # {}

\* Mutant: a missing item is returned as None instead of raising.
FoundOrRaise_ReturnsNone(item) ==
    IF Truthy(item) THEN Return("item", item) ELSE Return("item", None)

\* The else branch of find_by_id: a bare `raise` with no exception being
\* handled raises RuntimeError("No active exception to reraise").
FoundOrRaise(item) ==
    IF Truthy(item) THEN Return("item", item) ELSE Raise("RuntimeError", "")

find_by_id(tbl, item_id, fault) ==
    LET response == get_item(tbl, item_id, fault)
    IN IF response.err # NoFault THEN Outcome(tbl, response.err, Reraise(response.err))
       ELSE Outcome(tbl, NoFault, FoundOrRaise(response.Item))

condition_required == AttrExists(ID)

\* Mutant: the existence requirement is left out.
EffectiveCondition_NoExists(condition_expression) == condition_expression

\* Mutant: the caller's condition is left out.
EffectiveCondition_IgnoresCaller(condition_expression) == condition_required

\* `not condition_expression` holds for None only: condition objects are truthy.
EffectiveCondition(condition_expression) ==
    IF condition_expression.op = "None" THEN condition_required
    ELSE And(condition_required, condition_expression)

update(tbl, item_id, upd, condition_expression, fault) ==
    LET response == update_item(tbl, item_id, upd,
                                EffectiveCondition(condition_expression), fault)
    IN IF response.err # NoFault
       THEN Outcome(response.table, response.err, Reraise(response.err))
       ELSE Outcome(response.table, NoFault, Return("attrs", response.Attributes))

\* Mutant: a delete that demands the item to exist.
delete_Conditional(tbl, item_id, fault) ==
    LET r == delete_item(tbl, item_id, fault)
    IN IF r.err # NoFault THEN Outcome(r.table, r.err, Reraise(r.err))
       ELSE IF item_id \notin DOMAIN tbl
       THEN Outcome(tbl, ConditionalCheckFailed, Reraise(ConditionalCheckFailed))
       ELSE Outcome(r.table, NoFault, Return("none", <<>>))

delete(tbl, item_id, fault) ==
    LET r == delete_item(tbl, item_id, fault)
    IN IF r.err # NoFault THEN Outcome(r.table, r.err, Reraise(r.err))
       ELSE Outcome(r.table, NoFault, Return("none", <<>>))

\* search calls Table.query with a FilterExpression and nothing else.
search(tbl, field, value, fault) ==
    LET response == query(tbl, None, AttrContains(field, PyStr(value)), fault)
    IN IF response.err # NoFault THEN Outcome(tbl, response.err, Reraise(response.err))
       ELSE Outcome(tbl, NoFault, Return("list", response.Items))

\* find_all, one loop iteration at a time.
InitialScanArgs(limit) == [Limit |-> limit, ExclusiveStartKey |-> None]

\* Mutant: the cursor is never put into the request.
RequestArgs_NoCursor(args, key) == args

\* if start_key: scan_args['ExclusiveStartKey'] = start_key
RequestArgs(args, key) ==
    IF key # None THEN [args EXCEPT !.ExclusiveStartKey = key] ELSE args

\* Mutant: each page replaces the items collected so far.
Extend_Overwrites(acc, response) == response.Items

\* items.extend(response.get('Items', []))
Extend(acc, response) == acc \o response.Items

\* start_key = response.get('LastEvaluatedKey', None)
NextStartKey(response) == response.LastEvaluatedKey

\* Mutant: a failing page ends the scan with the items collected so far.
FindAllFailed_ReturnsPartial(acc, err) == Return("list", acc)

\* the except branch of find_all: the accumulated items are dropped
FindAllFailed(acc, err) == Reraise(err)

\* ------------------------------------------------------------------- state
VARIABLES
    table,      \* the DynamoDB table: key -> stored item
    pc,         \* "idle", or "scan" while find_all is inside its loop
    items,      \* find_all: accumulated items
    start_key,  \* find_all: cursor for the next request
    scan_args,  \* find_all: keyword arguments of the scan call
    done,       \* find_all: loop flag
    scanLog,    \* history: per scan request, the cursor sent and the cursor got
    written,    \* history: per id, the last write and the item it wrote
    lastOp      \* history: the last call, what it was given and its outcome

vars == <<table, pc, items, start_key, scan_args, done, scanLog, written, lastOp>>
scanVars == <<pc, items, start_key, scan_args, done, scanLog>>

Limits == 1..MaxLimit

Updates == {[field |-> STATUS, value |-> PyStr(AB)]}
Conditions == {NoCondition, AttrEq(STATUS, PyStr(AB)), AttrEq(NUM, PyInt(1))}
SearchFields == {STATUS}
SearchValues == {B, C}

RECURSIVE SeqsUpTo(_, _)
SeqsUpTo(S, n) ==
    IF n = 0 THEN {<<>>}
    ELSE LET shorter == SeqsUpTo(S, n - 1)
         IN shorter \cup {Append(q, x) : q \in shorter, x \in S}

Batches == SeqsUpTo(BatchPool, MaxBatch)

NoOp ==
    [op |-> "init", id |-> None, field |-> <<>>, value |-> <<>>, limit |-> 0,
     existed |-> FALSE, prevBy |-> "none", condGiven |-> FALSE, condHeld |-> FALSE,
     distinct |-> FALSE, dropped |-> 0,
     storeErr |-> NoFault, result |-> Return("none", <<>>)]

Called(op, id, o) ==
    [NoOp EXCEPT !.op = op, !.id = id, !.storeErr = o.storeErr, !.result = o.result]

\* `over`: the write replaced a different item stored under the same id.
Mark(by, item, over) == [by |-> by, item |-> item, over |-> over]
Replaces(tbl, item) ==
    ItemId(item) \in DOMAIN tbl /\ tbl[ItemId(item)] # SerializeItem(item)

\* In the actions, \E o \in {handler(...)} names the outcome of the one call.
Init ==
    /\ table = [i \in {} |-> 0]
    /\ pc = "idle"
    /\ items = <<>>
    /\ start_key = None
    /\ scan_args = InitialScanArgs(1)
    /\ done = FALSE
    /\ scanLog = <<>>
    /\ written = [i \in Ids |-> Mark("none", None, FALSE)]
    /\ lastOp = NoOp

Insert ==
    /\ pc = "idle"
    /\ \E item \in ItemPool, fault \in FaultChoice :
       \E o \in {insert(table, item, fault)} :
           /\ table' = o.table
           /\ written' = IF o.result.kind = "return"
                         THEN [written EXCEPT ![ItemId(item)] =
                                  Mark("insert", Some(item), Replaces(table, item))]
                         ELSE written
           /\ lastOp' = Called("insert", Some(ItemId(item)), o)
    /\ UNCHANGED scanVars

InsertMany ==
    /\ pc = "idle"
    /\ \E data \in Batches :
       \E fault \in IF Len(data) = 0 \/ HasDuplicateKeys(data) THEN {NoFault} ELSE FaultChoice :
       \E processed \in IF fault = NoFault THEN {Len(data)} ELSE 0..(Len(data) - 1) :
       \E o \in {insert_many(table, data, fault, processed)} :
       \E sent \in {IF o.storeErr = ValidationException THEN 0
                    ELSE IF o.storeErr = NoFault THEN Len(data) ELSE processed} :
        LET by == IF o.result.kind = "return" THEN "insert_many" ELSE "partial"
        IN /\ table' = o.table
           /\ written' = [i \in Ids |->
                            IF \E k \in 1..sent : ItemId(data[k]) = i
                            THEN LET item == data[CHOOSE k \in 1..sent : ItemId(data[k]) = i]
                                 IN Mark(by, IF by = "partial" THEN None ELSE Some(item), FALSE)
                            ELSE written[i]]
           /\ lastOp' = [Called("insert_many", None, o) EXCEPT
                            !.limit = Len(data), !.distinct = ~HasDuplicateKeys(data)]
    /\ UNCHANGED scanVars

FindById ==
    /\ pc = "idle"
    /\ \E item_id \in Ids, fault \in FaultChoice :
       \E o \in {find_by_id(table, item_id, fault)} :
           /\ table' = o.table
           /\ lastOp' = Called("find_by_id", Some(item_id), o)
    /\ UNCHANGED <<scanVars, written>>

Update ==
    /\ pc = "idle"
    /\ \E item_id \in Ids, upd \in Updates, cond \in Conditions, fault \in FaultChoice :
       \E o \in {update(table, item_id, upd, cond, fault)} :
           /\ table' = o.table
           /\ written' = IF o.table # table \/ o.result.kind = "return"
                         THEN [written EXCEPT ![item_id] = Mark("update", None, FALSE)]
                         ELSE written
           /\ lastOp' = [Called("update", Some(item_id), o) EXCEPT
                            !.existed = item_id \in DOMAIN table,
                            !.condGiven = cond # NoCondition,
                            !.condHeld = EvalCond(cond, Stored(table, item_id))]
    /\ UNCHANGED scanVars

Delete ==
    /\ pc = "idle"
    /\ \E item_id \in Ids, fault \in FaultChoice :
       \E o \in {delete(table, item_id, fault)} :
           /\ table' = o.table
           /\ written' = IF o.result.kind = "return"
                         THEN [written EXCEPT ![item_id] = Mark("delete", None, FALSE)]
                         ELSE written
           /\ lastOp' = [Called("delete", Some(item_id), o) EXCEPT
                            !.prevBy = IF written[item_id].by \in {"none", "delete"}
                                       THEN written[item_id].by ELSE "write"]
    /\ UNCHANGED scanVars

Search ==
    /\ pc = "idle"
    /\ \E field \in SearchFields, value \in SearchValues, fault \in FaultChoice :
       \E o \in {search(table, field, value, fault)} :
           /\ table' = o.table
           /\ lastOp' = [Called("search", None, o) EXCEPT !.field = field, !.value = value]
    /\ UNCHANGED <<scanVars, written>>

\* items = []; scan_args = {"Limit": limit}; done = False; start_key = None
FindAllStart ==
    /\ pc = "idle"
    /\ \E limit \in Limits :
        /\ scan_args' = InitialScanArgs(limit)
        /\ lastOp' = [NoOp EXCEPT !.op = "find_all", !.limit = limit,
                                  !.result = Return("pending", <<>>)]
    /\ pc' = "scan"
    /\ items' = <<>>
    /\ start_key' = None
    /\ done' = FALSE
    /\ scanLog' = <<>>
    /\ UNCHANGED <<table, written>>

\* one iteration of `while not done`
FindAllPage ==
    /\ pc = "scan"
    /\ ~done
    /\ \E fault \in FaultChoice :
        LET args == RequestArgs(scan_args, start_key)
            response == scan(table, args, fault)
        IN /\ IF response.err # NoFault
              THEN /\ pc' = "idle"
                   /\ scan_args' = InitialScanArgs(1)
                   /\ lastOp' = [lastOp EXCEPT
                                    !.dropped = Len(items),
                                    !.storeErr = response.err,
                                    !.result = FindAllFailed(items, response.err)]
                   /\ items' = <<>>
                   /\ start_key' = None
                   /\ done' = FALSE
                   /\ scanLog' = <<>>
              ELSE /\ scan_args' = args
                   /\ items' = Extend(items, response)
                   /\ start_key' = NextStartKey(response)
                   /\ done' = (NextStartKey(response) = None)
                   /\ scanLog' = Append(scanLog, [sent |-> args.ExclusiveStartKey,
                                                  got |-> response.LastEvaluatedKey])
                   /\ UNCHANGED <<pc, lastOp>>
    /\ UNCHANGED <<table, written>>

\* return items (the locals of the call are gone afterwards)
FindAllReturn ==
    /\ pc = "scan"
    /\ done
    /\ pc' = "idle"
    /\ lastOp' = [lastOp EXCEPT !.result = Return("list", items)]
    /\ items' = <<>>
    /\ start_key' = None
    /\ scan_args' = InitialScanArgs(1)
    /\ done' = FALSE
    /\ scanLog' = <<>>
    /\ UNCHANGED <<table, written>>

Next ==
    \/ Insert
    \/ InsertMany
    \/ FindById
    \/ Update
    \/ Delete
    \/ Search
    \/ FindAllStart
    \/ FindAllPage
    \/ FindAllReturn

Spec == Init /\ [][Next]_vars

\* find_all runs to completion once called: its loop is ordinary sequential code.
FairSpec == Spec /\ WF_vars(FindAllPage) /\ WF_vars(FindAllReturn)

\* ------------------------------------------------------------ properties
Id(op) == op.id[1]
\* the store call itself went through (it was not throttled)
Served(op) == op.storeErr \notin Faults
ConditionFailure(r) ==
    r.kind = "raise" /\ r.exc = "ClientError" /\ r.code = ConditionalCheckFailed
ReturnsItem(r, item) ==
    r.kind = "return" /\ r.shape = "item" /\ r.value # None /\ PyItemEq(r.value[1], item)

\* C1: find_by_id of an id whose last write was an insert (no write or delete of
\* that id since) returns an item equal to the one inserted, also when the
\* insert replaced an item already stored under that id.
C1_InsertFindRoundTrip ==
    (lastOp.op = "find_by_id" /\ Served(lastOp) /\ written[Id(lastOp)].by = "insert")
        => ReturnsItem(lastOp.result, written[Id(lastOp)].item[1])

C1_Witness ==
    /\ lastOp.op = "find_by_id"
    /\ Served(lastOp)
    /\ written[Id(lastOp)].by = "insert"
    /\ written[Id(lastOp)].over
    /\ NUM \in DOMAIN written[Id(lastOp)].item[1]
    /\ lastOp.result.kind = "return"

C3_UpdateOfAbsentIdFails ==
    [][(lastOp'.op = "update" /\ ~lastOp'.existed)
        => /\ table' = table
           /\ Id(lastOp') \notin DOMAIN table'
           /\ lastOp'.result.kind = "raise"
           /\ lastOp'.result.exc = "ClientError"
           /\ Served(lastOp') => ConditionFailure(lastOp'.result)]_vars

C3_Witness ==
    /\ lastOp.op = "update"
    /\ ~lastOp.existed
    /\ ~lastOp.condGiven
    /\ Served(lastOp)
    /\ ConditionFailure(lastOp.result)

\* C4: update with a caller condition that is false on the stored item fails
\* with a condition failure although the item exists, and leaves the table
\* unchanged; an update returns, or changes the table, only when the item
\* exists and the caller's condition holds.
C4_FalseConditionFails ==
    [][lastOp'.op = "update"
        => /\ (lastOp'.existed /\ lastOp'.condGiven /\ ~lastOp'.condHeld)
                => /\ table' = table
                   /\ lastOp'.result.kind = "raise"
                   /\ Served(lastOp') => ConditionFailure(lastOp'.result)
           /\ (lastOp'.result.kind = "return" \/ table' # table)
                => (lastOp'.existed /\ lastOp'.condHeld)]_vars

C4_Witness ==
    /\ lastOp.op = "update"
    /\ lastOp.existed
    /\ lastOp.condGiven
    /\ ~lastOp.condHeld
    /\ Served(lastOp)
    /\ ConditionFailure(lastOp.result)

C6_DeleteIdempotent ==
    [][(lastOp'.op = "delete" /\ Served(lastOp') /\ lastOp'.prevBy \in {"delete", "none"})
        => /\ lastOp'.result.kind = "return"
           /\ table' = table]_vars

C6_Witness ==
    /\ lastOp.op = "delete"
    /\ Served(lastOp)
    /\ lastOp.prevBy = "delete"
    /\ lastOp.result.kind = "return"

\* C7: whenever the store raises inside an operation, the operation raises
\* that same error and returns nothing; find_all that fails on a later page
\* does not hand back the items of the earlier pages.
PublicOps == {"insert", "insert_many", "find_by_id", "update", "find_all", "delete", "search"}

C7_ErrorsPropagate ==
    (lastOp.op \in PublicOps /\ lastOp.storeErr # NoFault)
        => lastOp.result = Raise("ClientError", lastOp.storeErr)

C7_Witness ==
    /\ lastOp.op = "find_all"
    /\ lastOp.storeErr # NoFault
    /\ lastOp.dropped > 0
    /\ lastOp.result.kind = "raise"

\* C8: every item last written by an insert_many that returned is found by
\* find_by_id, equal to the item passed in.
C8_InsertManyRetrievable ==
    \A id \in Ids :
        written[id].by = "insert_many"
            => ReturnsItem(find_by_id(table, id, NoFault).result, written[id].item[1])

C8_Witness ==
    /\ lastOp.op = "insert_many"
    /\ lastOp.result.kind = "return"
    /\ lastOp.distinct
    /\ lastOp.limit = MaxBatch
    /\ Cardinality({id \in Ids : written[id].by = "insert_many"}) >= MaxBatch

\* The keys of the items whose field contains value.
Matches(tbl, field, value) ==
    {k \in DOMAIN tbl : EvalCond(AttrContains(field, PyStr(value)), Some(tbl[k]))}

\* C9: a search(field, value) whose store call is not throttled returns exactly
\* the items whose field contains value (none without the field, none without
\* the value).
C9_SearchReturnsMatches ==
    (lastOp.op = "search" /\ Served(lastOp))
        => /\ lastOp.result.kind = "return"
           /\ {ItemId(lastOp.result.value[i]) : i \in 1..Len(lastOp.result.value)}
                = Matches(table, lastOp.field, lastOp.value)

\* C10: the first scan request of find_all carries no start key, each later one
\* carries the LastEvaluatedKey of the page before it, the loop goes on exactly
\* while a page brings a key, and a find_all that was called ends.
CursorProtocol ==
    /\ \A i \in 1..Len(scanLog) :
          scanLog[i].sent = IF i = 1 THEN None ELSE scanLog[i - 1].got
    /\ \A i \in 1..(Len(scanLog) - 1) : scanLog[i].got # None
    /\ (pc = "scan" /\ scanLog # <<>>) => (done <=> scanLog[Len(scanLog)].got = None)
    /\ (pc = "scan" /\ scanLog = <<>>) => ~done

====
